---- MODULE Spec2Model ----
(***************************************************************************)
(* A model of the merging t-digest of src/TDigest.h: one digest `td`       *)
(* receiving add / merge / compress / quantile / cdf calls.                *)
(*                                                                         *)
(* Numbers.  Value and Weight are `double` in the source.  The model       *)
(* computes with exact rationals <<num, den>> (den > 0, lowest terms), so  *)
(* every formula of the source is evaluated as written but without         *)
(* rounding.  NaN is the pair <<0, 0>>.  Weights of reachable digests are  *)
(* sums of unit sample weights and are kept as integers.                   *)
(*                                                                         *)
(* Scale function.  integratedLocation / integratedQ use asin and sin.     *)
(* Their composition, the only way the source uses them, is algebraic for  *)
(* compression 1 and 2; the model covers these two values and keeps the    *)
(* weight limit wLimit as a number a + sqrt(b), compared exactly.  For     *)
(* the weights the model reaches (below 10) no comparison against wLimit   *)
(* is an equality except where integratedQ is exactly 1 or 1/2 in double   *)
(* arithmetic too, so rounding does not decide any branch.                 *)
(***************************************************************************)
EXTENDS Integers, Sequences, FiniteSets, TLC

(***************************************************************************)
(* Exact arithmetic standing for `double`.                                 *)
(***************************************************************************)
Abs(n) == IF n < 0 THEN -n ELSE n

RECURSIVE GCD(_, _)
GCD(a, b) == IF b = 0 THEN a ELSE GCD(b, a % b)

\* The rational n/d in lowest terms with a positive denominator.
Rat(n, d) ==
    IF d = 0 THEN <<0, 0>>
    ELSE LET g == GCD(Abs(n), Abs(d))
             s == IF d < 0 THEN -1 ELSE 1
         IN  <<(s * n) \div g, (s * d) \div g>>

R(n) == <<n, 1>>

NaN == <<0, 0>>

isnan(x) == x[2] = 0

RAdd(x, y) == Rat(x[1] * y[2] + y[1] * x[2], x[2] * y[2])
RSub(x, y) == Rat(x[1] * y[2] - y[1] * x[2], x[2] * y[2])
RMul(x, y) == Rat(x[1] * y[1], x[2] * y[2])
\* x / y; a division by zero yields NaN (0/0) -- infinities are not modelled.
RDiv(x, y) == IF y[1] = 0 THEN NaN ELSE Rat(x[1] * y[2], x[2] * y[1])
\* Comparisons; each is false when an operand is NaN.
RLt(x, y) == x[1] * y[2] < y[1] * x[2]
RLe(x, y) == x[2] # 0 /\ y[2] # 0 /\ x[1] * y[2] <= y[1] * x[2]
\* std::min(a, b) is (b < a) ? b : a and std::max(a, b) is (a < b) ? b : a.
RMin(a, b) == IF RLt(b, a) THEN b ELSE a
RMax(a, b) == IF RLt(a, b) THEN b ELSE a

\* std::numeric_limits<double>::max(): a value above every sample of the model.
DBL_MAX == 1000
\* std::numeric_limits<double>::min() is the smallest POSITIVE normal double,
\* 1/DBL_MIN_INV here: positive, and below every positive sample of the model.
DBL_MIN_INV == 1000

(***************************************************************************)
(* class Centroid                                                          *)
(***************************************************************************)
Centroid(mean, weight) == [mean |-> mean, weight |-> weight]

\* Centroid::add: weight_ += c.weight_; mean_ += c.weight_ * (c.mean_ - mean_) / weight_
CentroidAdd(self, c) ==
    LET w == self.weight + c.weight
    IN  [mean   |-> RAdd(self.mean,
                         RDiv(RMul(R(c.weight), RSub(c.mean, self.mean)), R(w))),
         weight |-> w]

\* CentroidComparator: a.mean() < b.mean()
CentroidComparator(a, b) == RLt(a.mean, b.mean)

(***************************************************************************)
(* Scale function.  A scale value k is kept symbolically: either the       *)
(* literal 1.0, or integratedLocation(q) + plus for a weight fraction q.   *)
(***************************************************************************)
KLiteral == [lit |-> TRUE, loc |-> R(0), plus |-> 1]

\* integratedLocation(q) = compression * (asin(2q - 1) + pi/2) / pi
integratedLocation(q) == [lit |-> FALSE, loc |-> q, plus |-> 0]

KPlusOne(k) == [k EXCEPT !.plus = k.plus + 1]

\* A number a + sqrt(b), or NaN (nan = TRUE).
Surd(a, b) == [nan |-> FALSE, a |-> a, b |-> b]
SurdNaN == [nan |-> TRUE, a |-> R(0), b |-> R(0)]

\* integratedQ(k) = (sin(min(k, compression) * pi / compression - pi/2) + 1) / 2
\* for the two arguments the source passes: 1.0 and integratedLocation(q) + 1.0.
\*   compression 1: min(k, 1) = 1 for every k >= 1, so the value is 1;
\*   compression 2: k = 1 gives (sin(0) + 1)/2 = 1/2; with t = asin(2q-1) the
\*                  angle of k = integratedLocation(q) + 1 is t + pi/2, whose
\*                  sine is cos t = 2 sqrt(q(1-q)); min(k, 2) clamps the value
\*                  to 1 from q >= 1/2 on.
\* asin of an argument outside [-1, 1] is NaN, and NaN propagates through
\* std::min (which returns its first argument) and sin.
integratedQ(compression, k) ==
    IF k.lit
    THEN CASE compression = 1 -> Surd(R(1), R(0))
           [] compression = 2 -> Surd(Rat(1, 2), R(0))
    ELSE LET q == k.loc
         IN  IF isnan(q) \/ RLt(q, R(0)) \/ RLt(R(1), q)
             THEN SurdNaN
             ELSE CASE compression = 1 -> Surd(R(1), R(0))
                    [] compression = 2 ->
                         IF RLe(Rat(1, 2), q) THEN Surd(R(1), R(0))
                         ELSE Surd(Rat(1, 2), RMul(q, RSub(R(1), q)))

\* processedWeight_ * integratedQ(..)
SurdScale(w, s) ==
    IF s.nan THEN SurdNaN
    ELSE Surd(RMul(R(w), s.a), RMul(R(w * w), s.b))

\* projectedW <= wLimit; every comparison with NaN is false.
LeSurd(p, s) ==
    IF s.nan THEN FALSE
    ELSE LET d == RSub(R(p), s.a)
         IN  RLe(d, R(0)) \/ RLe(RMul(d, d), s.b)

(***************************************************************************)
(* class TDigest: construction                                             *)
(***************************************************************************)
\* std::ceil on the compression; the model's compressions are integers.
ceil(compression) == compression

processedSize(size, compression) ==
    IF size = 0 THEN 2 * ceil(compression) ELSE size

unprocessedSize(size, compression) ==
    IF size = 0 THEN 8 * ceil(compression) ELSE size

\* TDigest(compression, unmergedSize, mergedSize) with the member initialisers.
TDigest(compression, unmergedSize, mergedSize) ==
    [compression_       |-> compression,
     maxProcessed_      |-> processedSize(mergedSize, compression),
     maxUnprocessed_    |-> unprocessedSize(unmergedSize, compression),
     min                |-> R(DBL_MAX),
     max                |-> Rat(1, DBL_MIN_INV),
     processedWeight_   |-> 0,
     unprocessedWeight_ |-> 0,
     processed_         |-> <<>>,
     unprocessed_       |-> <<>>,
     dirty_             |-> FALSE]

totalWeight(d) == d.processedWeight_ + d.unprocessedWeight_

(***************************************************************************)
(* process(): the compress algorithm                                       *)
(***************************************************************************)
\* One step of std::sort's ordering: x placed before the first element that
\* x is not before (ties keep their order; tied unprocessed elements are equal).
RECURSIVE Insert(_, _)
Insert(x, s) ==
    IF s = <<>> THEN <<x>>
    ELSE IF CentroidComparator(x, Head(s)) THEN <<x>> \o s
    ELSE <<Head(s)>> \o Insert(x, Tail(s))

\* std::sort(unprocessed_.begin(), unprocessed_.end(), cc)
RECURSIVE sort(_)
sort(s) == IF s = <<>> THEN <<>> ELSE Insert(Head(s), sort(Tail(s)))

\* A merge step that leaves the two ranges where the insert put them.
inplace_mergeSkipped(a, b) == a \o b

\* std::inplace_merge of the sorted ranges a (first) and b (second): stable,
\* an element of b goes first only when it is strictly before the head of a.
RECURSIVE inplace_merge(_, _)
inplace_merge(a, b) ==
    IF a = <<>> THEN b
    ELSE IF b = <<>> THEN a
    ELSE IF CentroidComparator(Head(b), Head(a))
         THEN <<Head(b)>> \o inplace_merge(a, Tail(b))
         ELSE <<Head(a)>> \o inplace_merge(Tail(a), b)

\* The range-for of process() from element i of the combined sequence on;
\* st holds processed_, wSoFar and wLimit.
RECURSIVE ProcessLoop(_, _, _, _, _)
ProcessLoop(compression, pw, combined, i, st) ==
    IF i > Len(combined) THEN st.processed
    ELSE LET centroid == combined[i]
             projectedW == st.wSoFar + centroid.weight
             n == Len(st.processed)
         IN  IF LeSurd(projectedW, st.wLimit)
             THEN ProcessLoop(compression, pw, combined, i + 1,
                      [processed |-> [st.processed EXCEPT
                                         ![n] = CentroidAdd(st.processed[n], centroid)],
                       wSoFar    |-> projectedW,
                       wLimit    |-> st.wLimit])
             ELSE LET k1 == integratedLocation(RDiv(R(st.wSoFar), R(pw)))
                  IN  ProcessLoop(compression, pw, combined, i + 1,
                          [processed |-> Append(st.processed, centroid),
                           wSoFar    |-> st.wSoFar + centroid.weight,
                           wLimit    |-> SurdScale(pw,
                                            integratedQ(compression, KPlusOne(k1)))])

\* process().  g is what the read of unprocessed_[0] yields when the combined
\* sequence is empty (an out-of-bounds read of the reserved storage).
process(d, g) ==
    IF ~d.dirty_ THEN d
    ELSE LET count == sort(d.unprocessed_)
             combined == inplace_merge(count, d.processed_)
             pw == d.processedWeight_ + d.unprocessedWeight_
             first == IF combined = <<>> THEN g ELSE combined[1]
             done == ProcessLoop(d.compression_, pw, combined, 1,
                        [processed |-> <<first>>,
                         wSoFar    |-> first.weight,
                         wLimit    |-> SurdScale(pw,
                                          integratedQ(d.compression_, KLiteral))])
         IN  [d EXCEPT !.processedWeight_ = pw,
                       !.unprocessedWeight_ = 0,
                       !.processed_ = done,
                       !.unprocessed_ = <<>>,
                       !.dirty_ = FALSE,
                       !.min = RMin(d.min, done[1].mean),
                       !.max = RMax(d.max, done[Len(done)].mean)]

\* The condition under which processIfNecessary() calls process().
overCapacity(d) ==
    Len(d.unprocessed_) > d.maxUnprocessed_ \/ Len(d.processed_) > d.maxProcessed_

processIfNecessary(d, g) == IF overCapacity(d) THEN process(d, g) ELSE d

\* compress() { processIfNecessary(); }
compress(d, g) == processIfNecessary(d, g)

\* add(Value x, Weight w); the bool it returns is addOk.
addOk(x) == ~isnan(x)

\* add(x, w) up to, and not including, its processIfNecessary().
addPushed(d, x, w) ==
    [d EXCEPT !.unprocessed_ = Append(d.unprocessed_, Centroid(x, w)),
              !.unprocessedWeight_ = d.unprocessedWeight_ + w,
              !.dirty_ = TRUE]

add(d, x, w, g) ==
    IF isnan(x) THEN d ELSE processIfNecessary(addPushed(d, x, w), g)

(***************************************************************************)
(* add(std::vector<TDigest>): merging other digests                        *)
(***************************************************************************)
RECURSIVE Concat(_)
Concat(ss) == IF ss = <<>> THEN <<>> ELSE Head(ss) \o Concat(Tail(ss))

\* The sum of td.unprocessedWeight_ over the digests.
RECURSIVE SumUnprocessedWeight(_)
SumUnprocessedWeight(tdigests) ==
    IF tdigests = <<>> THEN 0
    ELSE Head(tdigests).unprocessedWeight_ + SumUnprocessedWeight(Tail(tdigests))

\* The sum of td.processedWeight_ over the digests whose processed_ is non-empty.
RECURSIVE SumProcessedWeight(_)
SumProcessedWeight(tdigests) ==
    IF tdigests = <<>> THEN 0
    ELSE (IF Len(Head(tdigests).processed_) > 0
          THEN Head(tdigests).processedWeight_ ELSE 0)
         + SumProcessedWeight(Tail(tdigests))

\* A mergeUnprocessed that appends the centroids and forgets their weight.
mergeUnprocessedNoWeight(d, tdigests) ==
    IF Len(tdigests) = 0 THEN d
    ELSE [d EXCEPT
             !.unprocessed_ = d.unprocessed_ \o
                 Concat([i \in 1..Len(tdigests) |-> tdigests[i].unprocessed_])]

\* mergeUnprocessed: append every other digest's unprocessed_ and add its weight.
mergeUnprocessed(d, tdigests) ==
    IF Len(tdigests) = 0 THEN d
    ELSE [d EXCEPT
             !.unprocessed_ = d.unprocessed_ \o
                 Concat([i \in 1..Len(tdigests) |-> tdigests[i].unprocessed_]),
             !.unprocessedWeight_ = d.unprocessedWeight_ +
                                    SumUnprocessedWeight(tdigests)]

\* The cursors (CentroidList) mergeProcessed pushes on the priority queue: one
\* for each other digest whose processed_ is non-empty, and one for this
\* digest's own processed_, pushed unconditionally.
CentroidLists(d, tdigests) ==
    SelectSeq([i \in 1..Len(tdigests) |-> tdigests[i].processed_],
              LAMBDA l : Len(l) > 0)
    \o <<d.processed_>>

\* A cursor over an empty list has iter = end: pq.top() / the comparator
\* dereference it, and advance() steps it past end, never to reach it again.
readsPastEnd(lists) == \E i \in 1..Len(lists) : lists[i] = <<>>

\* CentroidListComparator: the queue pops a cursor whose current mean is not
\* greater than any other's; which one among equal means is the heap's affair.
CentroidListComparator(left, right) == RLt(Head(right).mean, Head(left).mean)

\* One turn of the while loop on the priority queue: from each state
\* [lists, sorted] of the cursors and the output, pop a best cursor, emit its
\* element and advance it.
PopAndEmit(states) ==
    UNION {LET lists == st.lists
               live == {i \in 1..Len(lists) : lists[i] # <<>>}
               best == {i \in live :
                           \A j \in live : ~CentroidListComparator(lists[i], lists[j])}
           IN  {[lists  |-> [lists EXCEPT ![i] = Tail(lists[i])],
                 sorted |-> Append(st.sorted, Head(lists[i]))] : i \in best} :
           st \in states}

\* The while loop: every `sorted` it can end with, from non-empty cursors.
RECURSIVE KWayLoop(_)
KWayLoop(states) ==
    IF \A st \in states : \A i \in 1..Len(st.lists) : st.lists[i] = <<>>
    THEN {st.sorted : st \in states}
    ELSE KWayLoop(PopAndEmit(states))

KWayMerge(lists) == KWayLoop({[lists |-> lists, sorted |-> <<>>]})

\* mergeProcessed when no cursor is empty: the digests it can leave.
mergeProcessed(d, tdigests) ==
    IF Len(tdigests) = 0 THEN {d}
    ELSE {[d EXCEPT !.processed_ = sorted,
                    !.processedWeight_ = d.processedWeight_ +
                                         SumProcessedWeight(tdigests)] :
             sorted \in KWayMerge(CentroidLists(d, tdigests))}

\* add(others) up to, and not including, its processIfNecessary().
addMerged(d, others) ==
    IF Len(others) > 0
    THEN {[mergeUnprocessed(m, others) EXCEPT !.dirty_ = TRUE] :
             m \in mergeProcessed(d, others)}
    ELSE {d}

(***************************************************************************)
(* Queries.  A result is [value, success, check]; check is FALSE when a    *)
(* glog CHECK_* of the path taken fails (a fatal abort).                   *)
(***************************************************************************)
Result(value, success) == [value |-> value, success |-> success, check |-> TRUE]

\* mean(i) and weight(i) of processed_, 0-based as in the source.
mean(d, i) == d.processed_[i + 1].mean
weight(d, i) == R(d.processed_[i + 1].weight)

weightedAverageSorted(x1, w1, x2, w2) ==
    LET x == RDiv(RAdd(RMul(x1, w1), RMul(x2, w2)), RAdd(w1, w2))
    IN  [value |-> RMax(x1, RMin(x, x2)), success |-> TRUE, check |-> RLe(x1, x2)]

weightedAverage(x1, w1, x2, w2) ==
    IF RLe(x1, x2) THEN weightedAverageSorted(x1, w1, x2, w2)
    ELSE weightedAverageSorted(x2, w2, x1, w1)

\* The for loop of quantileProcessed from centroid i on, and the code after it.
RECURSIVE QuantileLoop(_, _, _, _)
QuantileLoop(d, index, i, weightSoFar) ==
    LET n == Len(d.processed_)
        pw == R(d.processedWeight_)
    IN  IF i < n - 1
        THEN LET dw == RDiv(RAdd(weight(d, i), weight(d, i + 1)), R(2))
             IN  IF RLt(index, RAdd(weightSoFar, dw))
                 THEN LET z1 == RSub(index, weightSoFar)
                          z2 == RSub(RAdd(weightSoFar, dw), index)
                      IN  weightedAverage(mean(d, i), z2, mean(d, i + 1), z1)
                 ELSE QuantileLoop(d, index, i + 1, RAdd(weightSoFar, dw))
        ELSE LET half == RDiv(weight(d, n - 1), R(2))
                 z1 == RSub(RSub(index, pw), half)
                 z2 == RSub(half, z1)
                 r == weightedAverage(mean(d, n - 1), z1, d.max, z2)
             IN  [r EXCEPT !.check = r.check /\ RLe(index, pw)
                                     /\ RLe(RSub(pw, half), index)]

\* A quantileProcessed without the range check on q.
quantileProcessedUnchecked(d, q) ==
    IF Len(d.processed_) = 0 THEN Result(R(0), FALSE)
    ELSE IF Len(d.processed_) = 1 THEN Result(mean(d, 0), TRUE)
    ELSE LET index == RMul(q, R(d.processedWeight_))
             half0 == RDiv(weight(d, 0), R(2))
         IN  IF RLt(index, half0)
             THEN [value |-> RAdd(d.min,
                                  RMul(RDiv(RMul(R(2), index), weight(d, 0)),
                                       RSub(mean(d, 0), d.min))),
                   success |-> TRUE,
                   check |-> RLt(R(0), weight(d, 0))]
             ELSE QuantileLoop(d, index, 0, half0)

quantileProcessed(d, q) ==
    IF RLt(q, R(0)) \/ RLt(R(1), q) THEN Result(R(0), FALSE)
    ELSE IF Len(d.processed_) = 0 THEN Result(R(0), FALSE)
    ELSE IF Len(d.processed_) = 1 THEN Result(mean(d, 0), TRUE)
    ELSE LET index == RMul(q, R(d.processedWeight_))
             half0 == RDiv(weight(d, 0), R(2))
         IN  IF RLt(index, half0)
             THEN [value |-> RAdd(d.min,
                                  RMul(RDiv(RMul(R(2), index), weight(d, 0)),
                                       RSub(mean(d, 0), d.min))),
                   success |-> TRUE,
                   check |-> RLt(R(0), weight(d, 0))]
             ELSE QuantileLoop(d, index, 0, half0)

\* The inner while of cdfProcessed: consecutive centroids with mean x.
RECURSIVE CdfEqualRun(_, _, _, _)
CdfEqualRun(d, x, it, weightSoFar) ==
    IF it < Len(d.processed_) /\ it + 1 < Len(d.processed_) /\ mean(d, it + 1) = x
    THEN CdfEqualRun(d, x, it + 1,
                     RAdd(weightSoFar, RAdd(weight(d, it), weight(d, it + 1))))
    ELSE weightSoFar

\* The for loop of cdfProcessed from centroid it on.  It is entered with
\* mean(0) < x < mean(n-1), so a bracketing pair exists before it = n - 1.
RECURSIVE CdfLoop(_, _, _, _)
CdfLoop(d, x, it, weightSoFar) ==
    LET pw == R(d.processedWeight_)
    IN  IF it + 1 >= Len(d.processed_) THEN Result(NaN, TRUE)
        ELSE IF mean(d, it) = x
        THEN Result(RDiv(RDiv(RAdd(weightSoFar, CdfEqualRun(d, x, it, weightSoFar)),
                              R(2)), pw), TRUE)
        ELSE LET dw == RDiv(RAdd(weight(d, it), weight(d, it + 1)), R(2))
             IN  IF RLe(mean(d, it), x) /\ RLt(x, mean(d, it + 1))
                 THEN IF RLt(R(0), RSub(mean(d, it + 1), mean(d, it)))
                      THEN Result(RDiv(RAdd(weightSoFar,
                                            RDiv(RMul(dw, RSub(x, mean(d, it))),
                                                 RSub(mean(d, it + 1), mean(d, it)))),
                                       pw), TRUE)
                      ELSE Result(RAdd(weightSoFar, RDiv(dw, pw)), TRUE)
                 ELSE CdfLoop(d, x, it + 1, RAdd(weightSoFar, dw))

cdfProcessed(d, x) ==
    LET n == Len(d.processed_)
        pw == R(d.processedWeight_)
    IN  IF n = 0 THEN Result(R(0), FALSE)
        ELSE IF n = 1
        THEN LET width == RSub(d.max, d.min)
             IN  IF RLt(x, d.min) THEN Result(R(0), TRUE)
                 ELSE IF RLt(d.max, x) THEN Result(R(1), TRUE)
                 ELSE IF RLe(RSub(x, d.min), width) THEN Result(Rat(1, 2), TRUE)
                 ELSE Result(RDiv(RSub(x, d.min), RSub(d.max, d.min)), TRUE)
        ELSE IF RLe(x, d.min) THEN Result(R(0), TRUE)
        ELSE IF RLe(d.max, x) THEN Result(R(1), TRUE)
        ELSE IF RLe(x, mean(d, 0))
        THEN IF RLt(R(0), RSub(mean(d, 0), d.min))
             THEN Result(RDiv(RDiv(RMul(RDiv(RSub(x, d.min), RSub(mean(d, 0), d.min)),
                                        weight(d, 0)), pw), R(2)), TRUE)
             ELSE Result(R(0), TRUE)
        ELSE IF RLe(mean(d, n - 1), x)
        THEN IF RLt(R(0), RSub(d.max, mean(d, n - 1)))
             THEN Result(RSub(R(1),
                              RDiv(RDiv(RMul(RDiv(RSub(d.max, x),
                                                  RSub(d.max, mean(d, n - 1))),
                                             weight(d, n - 1)), pw), R(2))), TRUE)
             ELSE Result(R(1), TRUE)
        ELSE CdfLoop(d, x, 0, RDiv(weight(d, 0), R(2)))

(***************************************************************************)
(* The state machine: one digest and the calls made on it.                 *)
(***************************************************************************)
\* Number of successful add(x) calls in a run.
MaxAdds == 2
\* Number of digests handed to add(others) calls in a run, over all the calls.
MaxMerged == 1

\* Constructor arguments <<compression, unmergedSize, mergedSize>>.
Configs == {<<1, 0, 0>>, <<2, 2, 0>>, <<2, 1, 2>>}

\* Arguments of add(x): a negative and a positive sample, and NaN.
Samples == {R(-1), R(2), NaN}
\* Arguments of quantile(q): below, at the ends of, inside and above [0, 1].
QArgs == {Rat(-1, 2), R(0), Rat(1, 2), R(1), Rat(3, 2)}
\* Arguments of cdf(x).  0 is left out: it lies between a negative sample and
\* the initial max, 1/DBL_MIN_INV here and 2.2e-308 in the source, where the
\* interpolation of the source rounds to 1 and the exact one does not.
XArgs == {R(-2), R(-1), R(1), R(2), R(3)}

\* What a read of uninitialised reserved storage can yield.
Garbage == {Centroid(R(0), 0), Centroid(R(3), 2)}

\* The values process() can read as unprocessed_[0] on digest d: an
\* uninitialised element when the combined sequence is empty, else the
\* element itself (the parameter g of process is then not used).
FirstRead(d) ==
    IF d.dirty_ /\ d.unprocessed_ = <<>> /\ d.processed_ = <<>>
    THEN Garbage ELSE {Centroid(R(0), 0)}

VARIABLES
    td,            \* the digest
    aborted,       \* the process died (out-of-bounds walk or a failed CHECK)
    nAdds,         \* successful add(x) calls so far
    nMerged,       \* digests handed to add(others) so far
    lastAdded,     \* the sample of the latest successful add(x)
    incorporated,  \* samples added plus totalWeight of every digest merged in
    observed,      \* first/last processed means seen at the end of a process()
    lastOp         \* the latest call: arguments, result, digest before it

vars == <<td, aborted, nAdds, nMerged, lastAdded, incorporated, observed, lastOp>>

\* A digest that received add(x) for the samples in order, then (forced) a query.
\* Its combined sequence is never empty when dirty, so g is not read.
RECURSIVE Build(_, _, _)
Build(d, samples, forced) ==
    IF samples = <<>>
    THEN (IF forced THEN process(d, Centroid(R(0), 0)) ELSE d)
    ELSE Build(add(d, Head(samples), 1, Centroid(R(0), 0)), Tail(samples), forced)

OtherSamples == {<<>>, <<R(2), R(-1)>>}

\* The digests that can be merged in, by constructor arguments.
OtherDigests ==
    [c \in Configs |->
        {Build(TDigest(c[1], c[2], c[3]), s, f) : s \in OtherSamples, f \in BOOLEAN}]

OtherVectors ==
    [c \in Configs |-> UNION {[1..n -> OtherDigests[c]] : n \in 0..MaxMerged}]

\* The constructor arguments digest d was made with.
ConfigOf(d) ==
    CHOOSE c \in Configs :
        /\ d.compression_ = c[1]
        /\ d.maxUnprocessed_ = unprocessedSize(c[2], c[1])
        /\ d.maxProcessed_ = processedSize(c[3], c[1])

\* process() gets past its dirty check when called (forced), or through
\* processIfNecessary() (not forced), on digest d.
processRuns(d, forced) == d.dirty_ /\ (forced \/ overCapacity(d))

Observe(obs, d, ran) ==
    IF ~ran THEN obs
    ELSE LET lo == d.processed_[1].mean
             hi == d.processed_[Len(d.processed_)].mean
         IN  IF ~obs.any THEN [any |-> TRUE, lo |-> lo, hi |-> hi]
             ELSE [any |-> TRUE,
                   lo |-> IF RLt(lo, obs.lo) THEN lo ELSE obs.lo,
                   hi |-> IF RLt(obs.hi, hi) THEN hi ELSE obs.hi]

\* pre: the digest before the call; mid: the digest as it stood when the call
\* reached process() / processIfNecessary(); ran: process() ran in this call.
Op(op, arg, others, res, pre, mid, ran, pastEnd) ==
    [op |-> op, arg |-> arg, others |-> others, value |-> res.value,
     success |-> res.success, pre |-> pre, mid |-> mid, ran |-> ran,
     pastEnd |-> pastEnd]

\* The total weight of the digests, td.totalWeight() before its cast to long.
RECURSIVE SumTotalWeight(_)
SumTotalWeight(tdigests) ==
    IF tdigests = <<>> THEN 0
    ELSE totalWeight(Head(tdigests)) + SumTotalWeight(Tail(tdigests))

Init ==
    /\ \E c \in Configs : td = TDigest(c[1], c[2], c[3])
    /\ aborted = FALSE
    /\ nAdds = 0
    /\ nMerged = 0
    /\ lastAdded = NaN
    /\ incorporated = 0
    /\ observed = [any |-> FALSE, lo |-> R(0), hi |-> R(0)]
    /\ lastOp = Op("new", R(0), <<>>, Result(R(0), TRUE), td, td, FALSE, FALSE)

\* add(Value x)
Add ==
    /\ ~aborted
    /\ \E x \in Samples :
          /\ addOk(x) => nAdds < MaxAdds
          /\ \E mid \in {IF isnan(x) THEN td ELSE addPushed(td, x, 1)} :
             \E g \in FirstRead(mid) :
             \E post \in {add(td, x, 1, g)} :
                /\ td' = post
                /\ observed' = Observe(observed, post, addOk(x) /\ processRuns(mid, FALSE))
                /\ lastOp' = Op("add", x, <<>>, Result(R(0), addOk(x)), td, mid,
                                addOk(x) /\ processRuns(mid, FALSE), FALSE)
          /\ nAdds' = IF addOk(x) THEN nAdds + 1 ELSE nAdds
          /\ lastAdded' = IF addOk(x) THEN x ELSE lastAdded
          /\ incorporated' = IF addOk(x) THEN incorporated + 1 ELSE incorporated
    /\ UNCHANGED <<aborted, nMerged>>

\* add(std::vector<TDigest> others) / merge(other), no cursor over an empty list.
AddVector ==
    /\ ~aborted
    /\ \E others \in OtherVectors[ConfigOf(td)] :
          /\ nMerged + Len(others) <= MaxMerged
          /\ nMerged' = nMerged + Len(others)
          /\ Len(others) > 0 => ~readsPastEnd(CentroidLists(td, others))
          /\ \E mid \in addMerged(td, others) :
             \E g \in FirstRead(mid) :
             \E post \in {IF Len(others) > 0 THEN processIfNecessary(mid, g) ELSE td} :
                /\ td' = post
                /\ observed' = Observe(observed, post,
                                       Len(others) > 0 /\ processRuns(mid, FALSE))
                /\ lastOp' = Op("merge", R(0), others, Result(R(0), TRUE), td, mid,
                                Len(others) > 0 /\ processRuns(mid, FALSE), FALSE)
          /\ incorporated' = incorporated + SumTotalWeight(others)
    /\ UNCHANGED <<aborted, nAdds, lastAdded>>

\* add(others) on a digest whose own processed_ is empty: mergeProcessed pushes
\* a cursor with iter = end and dereferences it; advance() never returns false
\* for it, so the loop reads on past the buffer until the process dies.
AddVectorPastEnd ==
    /\ ~aborted
    /\ \E others \in OtherVectors[ConfigOf(td)] :
          /\ nMerged + Len(others) <= MaxMerged
          /\ nMerged' = nMerged + Len(others)
          /\ Len(others) > 0
          /\ readsPastEnd(CentroidLists(td, others))
          /\ lastOp' = Op("merge", R(0), others, Result(R(0), FALSE),
                          td, td, FALSE, TRUE)
    /\ aborted' = TRUE
    /\ UNCHANGED <<td, nAdds, lastAdded, incorporated, observed>>

\* compress()
Compress ==
    /\ ~aborted
    /\ \E g \in FirstRead(td) :
       \E post \in {compress(td, g)} :
          /\ td' = post
          /\ observed' = Observe(observed, post, processRuns(td, FALSE))
          /\ lastOp' = Op("compress", R(0), <<>>, Result(R(0), TRUE),
                          td, td, processRuns(td, FALSE), FALSE)
    /\ UNCHANGED <<aborted, nAdds, nMerged, lastAdded, incorporated>>

\* quantile(q, &success)
Quantile ==
    /\ ~aborted
    /\ \E g \in FirstRead(td) :
       \E post \in {process(td, g)} :
       \E q \in QArgs :
       \E r \in {quantileProcessed(post, q)} :
          /\ td' = post
          /\ aborted' = ~r.check
          /\ observed' = Observe(observed, post, processRuns(td, TRUE))
          /\ lastOp' = Op("quantile", q, <<>>, r, td, td, processRuns(td, TRUE), FALSE)
    /\ UNCHANGED <<nAdds, nMerged, lastAdded, incorporated>>

\* cdf(x, &success)
Cdf ==
    /\ ~aborted
    /\ \E g \in FirstRead(td) :
       \E post \in {process(td, g)} :
       \E x \in XArgs :
       \E r \in {cdfProcessed(post, x)} :
          /\ td' = post
          /\ aborted' = ~r.check
          /\ observed' = Observe(observed, post, processRuns(td, TRUE))
          /\ lastOp' = Op("cdf", x, <<>>, r, td, td, processRuns(td, TRUE), FALSE)
    /\ UNCHANGED <<nAdds, nMerged, lastAdded, incorporated>>

Next == Add \/ AddVector \/ AddVectorPastEnd \/ Compress \/ Quantile \/ Cdf

Spec == Init /\ [][Next]_vars

(***************************************************************************)
(* Properties                                                              *)
(***************************************************************************)
RECURSIVE SumWeights(_)
SumWeights(s) == IF s = <<>> THEN 0 ELSE Head(s).weight + SumWeights(Tail(s))

IsSorted(s) == \A i \in 1..(Len(s) - 1) : RLe(s[i].mean, s[i + 1].mean)

HoldsNothing(d) == d.processed_ = <<>> /\ d.unprocessed_ = <<>>

InRange(q) == RLe(R(0), q) /\ RLe(q, R(1))

Count(s, c) == Cardinality({i \in 1..Len(s) : s[i] = c})

SameBag(s, t) ==
    /\ Len(s) = Len(t)
    /\ \A i \in 1..Len(s) : Count(s, s[i]) = Count(t, s[i])

OthersProcessed(others) == Concat([i \in 1..Len(others) |-> others[i].processed_])
OthersUnprocessed(others) == Concat([i \in 1..Len(others) |-> others[i].unprocessed_])

\* C1: a fresh digest that received exactly add(v) answers quantile(q) = (v, success)
\* for q in [0,1], cdf(v) = (1/2, success), cdf(x) = 0 for x < v and 1 for x > v.
C1_SingleSample ==
    (nAdds = 1 /\ nMerged = 0 /\ ~aborted) =>
        /\ (lastOp.op = "quantile" /\ InRange(lastOp.arg)) =>
               (lastOp.success /\ lastOp.value = lastAdded)
        /\ lastOp.op = "cdf" =>
               /\ lastOp.success
               /\ lastOp.value = (IF lastOp.arg = lastAdded THEN Rat(1, 2)
                                  ELSE IF RLt(lastOp.arg, lastAdded) THEN R(0)
                                  ELSE R(1))

\* C2: processedWeight + unprocessedWeight, and so totalWeight(), equals the
\* number of non-NaN samples added plus the total weight of every digest merged
\* in, and no compress, automatic or forced, changes that sum.
C2_WeightConserved ==
    /\ td.processedWeight_ + td.unprocessedWeight_ = incorporated
    /\ totalWeight(td) = incorporated
    /\ lastOp.ran => totalWeight(td) = totalWeight(lastOp.mid)

\* A merge of digests carrying weight into a digest with samples of its own,
\* which set off a compress.
C2_Witness ==
    /\ lastOp.op = "merge" /\ lastOp.ran /\ ~aborted
    /\ nAdds >= 1
    /\ SumUnprocessedWeight(lastOp.others) >= 2
    /\ totalWeight(td) >= 3

\* C3: processedWeight is the sum of the weights in the processed list and
\* unprocessedWeight the sum of the weights in the unprocessed list (a compress
\* folds each element of the combined sequence exactly once).
C3_WeightsMatchLists ==
    /\ td.processedWeight_ = SumWeights(td.processed_)
    /\ td.unprocessedWeight_ = SumWeights(td.unprocessed_)

\* C4: compress() on a Dirty digest holding data leaves it Clean (unprocessed
\* list empty, unprocessedWeight 0, dirty false) whatever the buffer sizes;
\* compress() on a Clean digest changes nothing.
C4_CompressLeavesClean ==
    lastOp.op = "compress" =>
        /\ (lastOp.pre.dirty_ /\ ~HoldsNothing(lastOp.pre)) =>
               (td.unprocessed_ = <<>> /\ td.unprocessedWeight_ = 0 /\ ~td.dirty_)
        /\ ~lastOp.pre.dirty_ => td = lastOp.pre

\* C5: after merge(others), before any compress it sets off, the processed list
\* is ascending and is the multiset union of the previous processed list and
\* the others' processed lists, the unprocessed list is the previous one
\* followed by the others', and no element is read past the end of a list --
\* whether this digest's own processed list is empty or not.
C5_MergeExact ==
    (lastOp.op = "merge" /\ Len(lastOp.others) > 0) =>
        /\ ~lastOp.pastEnd
        /\ IsSorted(lastOp.mid.processed_)
        /\ SameBag(lastOp.mid.processed_,
                   lastOp.pre.processed_ \o OthersProcessed(lastOp.others))
        /\ lastOp.mid.unprocessed_ =
               lastOp.pre.unprocessed_ \o OthersUnprocessed(lastOp.others)

\* C6: on a digest holding no centroids (fresh, or after merging only empty
\* digests) quantile(q), q in [0,1], and cdf(x) return failure and the compress
\* they force changes nothing and reads no element; merging only empty digests
\* into such a digest reads no element either.
C6_EmptyDigestQueries ==
    /\ (HoldsNothing(lastOp.pre) /\ lastOp.op \in {"quantile", "cdf"}
            /\ (lastOp.op = "quantile" => InRange(lastOp.arg))) =>
           (~lastOp.success /\ td = lastOp.pre /\ ~aborted)
    /\ (HoldsNothing(lastOp.pre) /\ lastOp.op = "merge"
            /\ \A i \in 1..Len(lastOp.others) : HoldsNothing(lastOp.others[i])) =>
           (~lastOp.pastEnd /\ ~aborted /\ HoldsNothing(td))

\* C7 as written: quantile(q) with q < 0 or q > 1 returns failure and mutates
\* no state of the digest.
C7_RejectsWithoutMutation ==
    (lastOp.op = "quantile" /\ ~InRange(lastOp.arg)) =>
        (~lastOp.success /\ td = lastOp.pre)

\* C7 amended: quantile(q) with q < 0 or q > 1 returns failure; on a Clean
\* digest it mutates nothing; on a Dirty digest it runs the compress every query
\* forces, which leaves the digest Clean with an empty unprocessed list, the
\* same total weight and the same configuration.
C7_RejectsAfterForcedCompress ==
    (lastOp.op = "quantile" /\ ~InRange(lastOp.arg)) =>
        /\ ~lastOp.success
        /\ lastOp.value = R(0)
        /\ ~lastOp.pre.dirty_ => td = lastOp.pre
        /\ lastOp.pre.dirty_ =>
               /\ ~td.dirty_ /\ td.unprocessed_ = <<>> /\ td.unprocessedWeight_ = 0
               /\ totalWeight(td) = totalWeight(lastOp.pre)
               /\ td.compression_ = lastOp.pre.compression_
               /\ td.maxProcessed_ = lastOp.pre.maxProcessed_
               /\ td.maxUnprocessed_ = lastOp.pre.maxUnprocessed_

\* quantile(q) with q out of range on a Dirty digest with buffered samples: the
\* forced compress ran and the query was then rejected.
C7_Witness ==
    /\ lastOp.op = "quantile" /\ ~InRange(lastOp.arg)
    /\ lastOp.pre.dirty_ /\ lastOp.ran
    /\ Len(lastOp.pre.unprocessed_) >= 1
    /\ Len(td.processed_) >= 2
    /\ ~lastOp.success
    /\ ~aborted

\* C8: the processed list is ascending by mean in every state, the one a merge
\* leaves before its compress included.
C8_ProcessedSorted ==
    /\ IsSorted(td.processed_)
    /\ IsSorted(lastOp.mid.processed_)

\* A merge that set off a compress and left three or more centroids with
\* different means.
C8_Witness ==
    /\ lastOp.op = "merge" /\ lastOp.ran /\ ~aborted
    /\ Len(lastOp.pre.unprocessed_) > 0
    /\ Len(td.processed_) >= 3
    /\ td.processed_[1].mean # td.processed_[Len(td.processed_)].mean

\* C9: once a compress has left the processed list non-empty, min is the
\* smallest first-centroid mean and max the largest last-centroid mean seen at
\* the end of any compress, for samples of any sign.
C9_MinMaxObserved ==
    observed.any => (td.min = observed.lo /\ td.max = observed.hi)

\* C10: when a compress completes, the unprocessed list is empty and the
\* processed list has at most maxProcessed centroids.
C10_CompressBounds ==
    lastOp.ran => (td.unprocessed_ = <<>> /\ Len(td.processed_) <= td.maxProcessed_)

====
